---- MODULE Spec2Model ----
(***************************************************************************)
(* Dice-notation parser and realization engine of archer884/expr.          *)
(*                                                                         *)
(*   src/src/parser.rs  parse, parse_expression, State                     *)
(*   src/src/lib.rs     Expression::apply_state / realize / roll_with_...  *)
(*   src/src/error.rs   Error                                              *)
(*                                                                         *)
(* A notation string is a sequence of one-character strings; offsets are   *)
(* 0-based as in the source (Slice converts to TLA+'s 1-based SubSeq).      *)
(***************************************************************************)
EXTENDS Integers, Sequences, FiniteSets, TLC

VARIABLES
    input,                \* s: the notation string handed to parse
    current_idx,          \* parse: position of the byte loop (0-based)
    state,                \* parse: the cursor State {kind, idx}
    expression,           \* parse: the in-progress Expression
    compound_expression,  \* parse: the Vec<Expression> being built
    parsed,               \* the Result parse returned (Pending while it runs)
    pc,                   \* position in the program
    source,               \* the values the RngProvider yields, in order
    drawn,                \* how many of them the current realize call has taken
    call,                 \* which realize call on the parsed expression (1, 2)
    term,                 \* CompoundExpression::realize: index of the term at hand
    die,                  \* Expression::realize: the counter of `for _ in 0..count`
    total,                \* Expression::realize: total
    roll_total,           \* roll_with_rerolls_and_explosions: total
    result,               \* roll_with_rerolls_and_explosions: result
    sum,                  \* CompoundExpression::realize: sum
    realized_expressions, \* CompoundExpression::realize: the terms realized so far
    realized,             \* the RealizedCompoundExpression the call returned
    first                 \* what the first realize call returned

pvars == <<input, current_idx, state, expression, compound_expression, parsed>>

rvars == <<source, drawn, call, term, die, total, roll_total, result, sum,
           realized_expressions, realized, first>>

vars == <<pvars, pc, rvars>>

----------------------------------------------------------------------------
(* Bounds of the model *)

\* longest notation string over CoreAlphabet
MaxLen == 5
\* longest notation string over the full alphabet
MaxLenWide == 3
\* most values one realize call takes from the provider
MaxDraws == 4
\* largest value the provider yields
MaxFaceValue == 6
\* largest value the accumulator of the unbounded loop holds before it wraps
MaxTotal == 4

----------------------------------------------------------------------------
(* Characters and integers *)

Digits == {"0", "1", "2", "3", "4", "5", "6", "7", "8", "9"}

DigitVal(c) ==
    CASE c = "0" -> 0 [] c = "1" -> 1 [] c = "2" -> 2 [] c = "3" -> 3
      [] c = "4" -> 4 [] c = "5" -> 5 [] c = "6" -> 6 [] c = "7" -> 7
      [] c = "8" -> 8 [] c = "9" -> 9

\* u8::to_ascii_lowercase on the letters the parser looks at
to_ascii_lowercase(c) ==
    CASE c = "A" -> "a" [] c = "S" -> "s" [] c = "D" -> "d" [] c = "R" -> "r"
      [] OTHER -> c

\* &s[from..to] with 0-based offsets
Slice(s, from, to) == SubSeq(s, from + 1, to)

\* i32::MAX
I32_MAX == 2147483647
\* u32::MAX \div 10 and u32::MAX % 10 (u32::MAX = 4294967295 itself is beyond
\* the integers TLC evaluates, so the overflow test is made on the quotient)
U32_MAX_DIV10 == 429496729
U32_MAX_MOD10 == 5

IntOk(v) == [ok |-> TRUE, v |-> v, cause |-> "None"]
IntErr(cause) == [ok |-> FALSE, v |-> 0, cause |-> cause]

\* the digit loop of core::num from_str_radix: left to right, an invalid digit
\* or an overflow ends it with the matching IntErrorKind
RECURSIVE FromDigits(_, _, _, _, _)
FromDigits(src, i, acc, maxDiv10, maxMod10) ==
    IF i > Len(src) THEN IntOk(acc)
    ELSE IF src[i] \notin Digits THEN IntErr("InvalidDigit")
    ELSE LET d == DigitVal(src[i]) IN
         IF acc > maxDiv10 \/ (acc = maxDiv10 /\ d > maxMod10)
         THEN IntErr("PosOverflow")
         ELSE FromDigits(src, i + 1, acc * 10 + d, maxDiv10, maxMod10)

\* str::parse::<i32>().  A span never holds '+' or '-' (parse ends the span at
\* either), so the optional sign of from_str_radix is never met.
ParseI32(src) ==
    IF src = <<>> THEN IntErr("Empty")
    ELSE FromDigits(src, 1, 0, I32_MAX \div 10, I32_MAX % 10)

\* str::parse::<u32>()
ParseU32(src) ==
    IF src = <<>> THEN IntErr("Empty")
    ELSE FromDigits(src, 1, 0, U32_MAX_DIV10, U32_MAX_MOD10)

----------------------------------------------------------------------------
(* error.rs *)

NoError == [kind |-> "None", expr |-> <<>>, cause |-> "None"]
bad_expression(expr) == [kind |-> "BadExpression", expr |-> expr, cause |-> "None"]
parse_integer(e, expr) == [kind |-> "ParseInteger", expr |-> expr, cause |-> e]

----------------------------------------------------------------------------
(* lib.rs: Value, Expression, ExpressionPair *)

None == [some |-> FALSE, v |-> 0]
Some(x) == [some |-> TRUE, v |-> x]

Fixed(n) == [kind |-> "Fixed", n |-> n]
Bounded(n) == [kind |-> "Bounded", n |-> n]

\* impl Default for Value
Value_default == Fixed(0)

\* #[derive(Default)] struct Expression
Expression_default ==
    [count |-> 0, value |-> Value_default, invert |-> FALSE,
     advantage |-> FALSE, disadvantage |-> FALSE,
     reroll |-> None, explode |-> None]

PairOk(count, value) ==
    [ok |-> TRUE, count |-> count, value |-> value, error |-> NoError]
PairErr(e) == [ok |-> FALSE, count |-> 0, value |-> 0, error |-> e]

----------------------------------------------------------------------------
(* parser.rs: parse_expression *)

is_separator(c) == c = "d" \/ c = "D"

\* str::split(|c| c == 'd' || c == 'D'): the parts between separators
RECURSIVE split(_, _, _)
split(expr, i, part) ==
    IF i > Len(expr) THEN <<part>>
    ELSE IF is_separator(expr[i]) THEN <<part>> \o split(expr, i + 1, <<>>)
    ELSE split(expr, i + 1, Append(part, expr[i]))

\* mutant: the third part goes unnoticed
too_many_parts_unchecked(parts) == FALSE

\* parts.next().is_some() after left and right were taken
too_many_parts(parts) == Len(parts) >= 3

parse_expression(expr) ==
    LET parts == split(expr, 1, <<>>)
        left == parts[1]
    IN  IF too_many_parts(parts) THEN PairErr(bad_expression(expr))
        ELSE IF Len(parts) = 2
        THEN LET c == ParseU32(left)
                 v == ParseI32(parts[2])
             IN  IF ~c.ok THEN PairErr(parse_integer(c.cause, expr))
                 ELSE IF ~v.ok THEN PairErr(parse_integer(v.cause, expr))
                 ELSE PairOk(c.v, v.v)
        ELSE LET v == ParseI32(left)
             IN  IF ~v.ok THEN PairErr(parse_integer(v.cause, expr))
                 ELSE PairOk(1, v.v)

----------------------------------------------------------------------------
(* parser.rs: State *)

Bang(idx) == [kind |-> "Bang", idx |-> idx]
Base(idx) == [kind |-> "Base", idx |-> idx]
BoundedState(idx) == [kind |-> "Bounded", idx |-> idx]
Reroll(idx) == [kind |-> "Reroll", idx |-> idx]

\* mutant: 'd' leaves the cursor as it is
into_bounded_kept(st) == st

\* mutant: 'd' moves the start of the span back to the start of the input
into_bounded_restart(st) == BoundedState(0)

into_bounded(st) == BoundedState(st.idx)

----------------------------------------------------------------------------
(* lib.rs: Expression::max, is_empty, apply_state *)

max(self) == self.value.n

is_empty(self) == self.count = 0

ApplyOk(e) == [ok |-> TRUE, expression |-> e, error |-> NoError]
ApplyErr(self, err) == [ok |-> FALSE, expression |-> self, error |-> err]

\* mutant: an empty Reroll span defaults like an empty Bang span
reroll_default_as_max(self) == self.value.n

\* the threshold of an empty Reroll span
reroll_default(self) == 1

\* mutant: an empty Bang span defaults like an empty Reroll span
explode_default_as_one(self) == 1

\* the threshold of an empty Bang span
explode_default(self) == max(self)

\* the Value a Base span is stored as
base_value(n) == Fixed(n)

\* mutant: a Bounded span stored as a Fixed value
bounded_value_as_fixed(n) == Fixed(n)

\* the Value a Bounded span is stored as
bounded_value(n) == Bounded(n)

apply_state(self, s, st, idx) ==
    LET expr == Slice(s, st.idx, idx) IN
    CASE st.kind = "Bang" ->
            IF expr = <<>>
            THEN ApplyOk([self EXCEPT !.explode = Some(explode_default(self))])
            ELSE LET t == ParseI32(expr) IN
                 IF t.ok THEN ApplyOk([self EXCEPT !.explode = Some(t.v)])
                 ELSE ApplyErr(self, parse_integer(t.cause, expr))
      [] st.kind = "Base" ->
            IF expr = <<>> THEN ApplyOk(self)
            ELSE LET p == parse_expression(expr) IN
                 IF p.ok
                 THEN ApplyOk([self EXCEPT !.count = p.count,
                                           !.value = base_value(p.value)])
                 ELSE ApplyErr(self, p.error)
      [] st.kind = "Bounded" ->
            IF expr = <<>> THEN ApplyOk(self)
            ELSE LET p == parse_expression(expr) IN
                 IF p.ok
                 THEN ApplyOk([self EXCEPT !.count = p.count,
                                           !.value = bounded_value(p.value)])
                 ELSE ApplyErr(self, p.error)
      [] st.kind = "Reroll" ->
            IF expr = <<>>
            THEN ApplyOk([self EXCEPT !.reroll = Some(reroll_default(self))])
            ELSE LET t == ParseI32(expr) IN
                 IF t.ok THEN ApplyOk([self EXCEPT !.reroll = Some(t.v)])
                 ELSE ApplyErr(self, parse_integer(t.cause, expr))

----------------------------------------------------------------------------
(* parser.rs: parse, one action per arm of the byte loop *)

Pending == [tag |-> "Pending", expressions |-> <<>>, error |-> NoError]
Ok(es) == [tag |-> "Ok", expressions |-> es, error |-> NoError]
Err(e) == [tag |-> "Err", expressions |-> <<>>, error |-> e]

\* the byte the loop is at
u == to_ascii_lowercase(input[current_idx + 1])

InLoop == pc = "parse" /\ current_idx < Len(input)

\* the `?` after apply_state: parse returns the error, its locals are dropped
Fail(e) ==
    /\ parsed' = Err(e)
    /\ pc' = "failed"
    /\ UNCHANGED <<input, current_idx, state, expression, compound_expression>>
    /\ UNCHANGED rvars

\* mutant: the boundary push without the is_empty test
push_always(ce, e) == Append(ce, e)

\* compound_expression.push(expression) unless the term is empty
push_nonempty(ce, e) == IF ~is_empty(e) THEN Append(ce, e) ELSE ce

\* the push at the end of the input
push_last(ce, e) == Append(ce, e)

\* mutant: the new term keeps the sign of the term finalized before it
after_adv_carried(prev, c) ==
    [Expression_default EXCEPT !.invert = prev.invert,
                               !.advantage = (c = "a"),
                               !.disadvantage = (c = "s")]

\* Expression { advantage: u == b'a', disadvantage: u == b's', ..Default::default() }
\* replaces the term prev
after_adv(prev, c) ==
    [Expression_default EXCEPT !.advantage = (c = "a"),
                               !.disadvantage = (c = "s")]

\* Expression { invert: u == b'-', ..Default::default() } replaces the term prev
after_sign(prev, c) == [Expression_default EXCEPT !.invert = (c = "-")]

\* b'a' | b's': an emitting boundary
parse_adv ==
    /\ InLoop
    /\ u \in {"a", "s"}
    /\ LET r == apply_state(expression, input, state, current_idx) IN
       IF ~r.ok THEN Fail(r.error)
       ELSE /\ compound_expression' = push_nonempty(compound_expression, r.expression)
            /\ expression' = after_adv(r.expression, u)
            /\ state' = Base(current_idx + 1)
            /\ current_idx' = current_idx + 1
            /\ UNCHANGED <<input, parsed, pc>>
            /\ UNCHANGED rvars

\* b'+' | b'-': an emitting boundary
parse_sign ==
    /\ InLoop
    /\ u \in {"+", "-"}
    /\ LET r == apply_state(expression, input, state, current_idx) IN
       IF ~r.ok THEN Fail(r.error)
       ELSE /\ compound_expression' = push_nonempty(compound_expression, r.expression)
            /\ expression' = after_sign(r.expression, u)
            /\ state' = Base(current_idx + 1)
            /\ current_idx' = current_idx + 1
            /\ UNCHANGED <<input, parsed, pc>>
            /\ UNCHANGED rvars

\* b'd'
parse_d ==
    /\ InLoop
    /\ u = "d"
    /\ state' = into_bounded(state)
    /\ current_idx' = current_idx + 1
    /\ UNCHANGED <<input, expression, compound_expression, parsed, pc>>
    /\ UNCHANGED rvars

\* b'r': a non-emitting boundary
parse_r ==
    /\ InLoop
    /\ u = "r"
    /\ LET r == apply_state(expression, input, state, current_idx) IN
       IF ~r.ok THEN Fail(r.error)
       ELSE /\ expression' = r.expression
            /\ state' = Reroll(current_idx + 1)
            /\ current_idx' = current_idx + 1
            /\ UNCHANGED <<input, compound_expression, parsed, pc>>
            /\ UNCHANGED rvars

\* b'!': a non-emitting boundary
parse_bang ==
    /\ InLoop
    /\ u = "!"
    /\ LET r == apply_state(expression, input, state, current_idx) IN
       IF ~r.ok THEN Fail(r.error)
       ELSE /\ expression' = r.expression
            /\ state' = Bang(current_idx + 1)
            /\ current_idx' = current_idx + 1
            /\ UNCHANGED <<input, compound_expression, parsed, pc>>
            /\ UNCHANGED rvars

\* _ => ()
parse_other ==
    /\ InLoop
    /\ u \notin {"a", "s", "+", "-", "d", "r", "!"}
    /\ current_idx' = current_idx + 1
    /\ UNCHANGED <<input, state, expression, compound_expression, parsed, pc>>
    /\ UNCHANGED rvars

\* after the loop: apply the last span, push, return
parse_end ==
    /\ pc = "parse"
    /\ current_idx = Len(input)
    /\ LET r == apply_state(expression, input, state, Len(input)) IN
       IF ~r.ok THEN Fail(r.error)
       ELSE /\ expression' = r.expression
            /\ compound_expression' = push_last(compound_expression, r.expression)
            /\ parsed' = Ok(compound_expression')
            /\ pc' = "parsed"
            /\ UNCHANGED <<input, current_idx, state>>
            /\ UNCHANGED rvars

parse ==
    \/ parse_adv
    \/ parse_sign
    \/ parse_d
    \/ parse_r
    \/ parse_bang
    \/ parse_other
    \/ parse_end

----------------------------------------------------------------------------
(* parser.rs: parse as a function of its argument *)

\* the locals of parse before the loop
Locals0 ==
    [ok |-> TRUE, state |-> BoundedState(0), expression |-> Expression_default,
     compound_expression |-> <<>>, error |-> NoError]

\* the locals after the loop body has run on byte i (0-based) of s, from the
\* locals l; ok = FALSE once a `?` has returned the error
parse_byte(l, s, i) ==
    LET c == to_ascii_lowercase(s[i + 1])
        r == apply_state(l.expression, s, l.state, i)
        failed == [l EXCEPT !.ok = FALSE, !.error = r.error]
    IN  CASE c \in {"a", "s"} ->
               IF ~r.ok THEN failed
               ELSE [l EXCEPT !.compound_expression = push_nonempty(@, r.expression),
                              !.expression = after_adv(r.expression, c),
                              !.state = Base(i + 1)]
          [] c \in {"+", "-"} ->
               IF ~r.ok THEN failed
               ELSE [l EXCEPT !.compound_expression = push_nonempty(@, r.expression),
                              !.expression = after_sign(r.expression, c),
                              !.state = Base(i + 1)]
          [] c = "d" -> [l EXCEPT !.state = into_bounded(@)]
          [] c = "r" ->
               IF ~r.ok THEN failed
               ELSE [l EXCEPT !.expression = r.expression, !.state = Reroll(i + 1)]
          [] c = "!" ->
               IF ~r.ok THEN failed
               ELSE [l EXCEPT !.expression = r.expression, !.state = Bang(i + 1)]
          [] OTHER -> l

\* the locals after the first n bytes of s
RECURSIVE parse_bytes(_, _)
parse_bytes(s, n) ==
    IF n = 0 THEN Locals0
    ELSE LET l == parse_bytes(s, n - 1) IN
         IF l.ok THEN parse_byte(l, s, n - 1) ELSE l

\* parse(s)
parse_str(s) ==
    LET l == parse_bytes(s, Len(s))
        r == apply_state(l.expression, s, l.state, Len(s))
    IN  IF ~l.ok THEN Err(l.error)
        ELSE IF ~r.ok THEN Err(r.error)
        ELSE Ok(push_last(l.compound_expression, r.expression))

----------------------------------------------------------------------------
(* lib.rs: the RngProvider *)

\* The provider is any implementation of the trait (the tests' MockRngProvider
\* ignores the `max` it is handed): each value is any of 1..MaxFaceValue, fixed
\* when it is first asked for and recorded in `source`; a second provider
\* "with the same sequence" reads the recorded values again.
\* A realize call takes at most MaxDraws values of at most MaxFaceValue, so
\* every i32 sum below stays far inside the type and never wraps.
\* The n values the next n calls of provider.next yield.
Draws(n) ==
    {ds \in [1..n -> 1..MaxFaceValue] :
        \A i \in 1..n : drawn + i <= Len(source) => ds[i] = source[drawn + i]}

Drawn(ds) ==
    IF Len(source) >= drawn + Len(ds) THEN source
    ELSE SubSeq(source, 1, drawn) \o ds

----------------------------------------------------------------------------
(* lib.rs: RealizedExpression, Expression::realize and its helpers *)

RealizedExpression(mn, mx, r) == [min |-> mn, max |-> mx, realized |-> r]

fixed(n) == RealizedExpression(n, n, n)

cmp_max(a, b) == IF a >= b THEN a ELSE b
cmp_min(a, b) == IF a <= b THEN a ELSE b

\* how many values one call of apply_advantage_and_disadvantage takes
draws_taken(self) ==
    IF (self.advantage /\ ~self.disadvantage) \/ (~self.advantage /\ self.disadvantage)
    THEN 2 ELSE 1

\* mutant: advantage keeps the smaller value, disadvantage the larger
apply_advantage_and_disadvantage_swapped(self, ds) ==
    CASE self.advantage /\ ~self.disadvantage -> IF ds[1] <= ds[2] THEN ds[1] ELSE ds[2]
      [] ~self.advantage /\ self.disadvantage -> IF ds[1] >= ds[2] THEN ds[1] ELSE ds[2]
      [] OTHER -> ds[1]

\* apply_advantage_and_disadvantage, given the values provider.next yields
apply_advantage_and_disadvantage(self, ds) ==
    CASE self.advantage /\ ~self.disadvantage -> cmp_max(ds[1], ds[2])
      [] ~self.advantage /\ self.disadvantage -> cmp_min(ds[1], ds[2])
      [] OTHER -> ds[1]

\* mutant: explode only above the threshold
explodes_above(self, r) == self.explode.some /\ r > self.explode.v

\* mutant: a candidate at or below the reroll threshold does not explode
explodes_unless_rerolled(self, r) ==
    /\ self.explode.some
    /\ r >= self.explode.v
    /\ ~(self.reroll.some /\ self.reroll.v >= r)

\* mutant: explode at or below the threshold
explodes_at_most(self, r) == self.explode.some /\ r <= self.explode.v

\* self.explode.map(|x| result >= x).unwrap_or_default()
explodes(self, r) == self.explode.some /\ r >= self.explode.v

\* mutant: reroll only below the threshold
rerolls_below(self, r) == self.reroll.some /\ self.reroll.v > r

\* self.reroll.map(|x| x >= result).unwrap_or_default()
rerolls(self, r) == self.reroll.some /\ self.reroll.v >= r

\* mutant: an inverted term keeps the bounds of a term that is not
realize_bounded_unsigned(self, t) ==
    RealizedExpression(self.count, self.count * max(self),
                       IF self.invert THEN -t ELSE t)

\* mutant: an inverted term's bounds are negated but not exchanged
realize_bounded_unordered(self, t) ==
    IF self.invert
    THEN RealizedExpression(-(self.count), -(self.count * max(self)), -t)
    ELSE RealizedExpression(self.count, self.count * max(self), t)

\* the RealizedExpression a Bounded term ends with
realize_bounded(self, t) ==
    IF self.invert
    THEN RealizedExpression(-(self.count * max(self)), -(self.count), -t)
    ELSE RealizedExpression(self.count, self.count * max(self), t)

\* mutant: the sum is carried over from the previous call
sum_start_carried(previous) == previous

\* let mut sum = 0 at the start of CompoundExpression::realize
sum_start(previous) == 0

----------------------------------------------------------------------------
(* lib.rs: CompoundExpression::realize, stepwise *)

NoRealized == [sum |-> 0, realized_expressions |-> <<>>]

\* the term the iterator is at
x == parsed.expressions[term]

\* CompoundExpression::realize is called on the parsed expression
realize_begin ==
    /\ pc = "parsed"
    /\ sum' = sum_start(sum)
    /\ realized_expressions' = <<>>
    /\ term' = 1
    /\ pc' = "term"
    /\ UNCHANGED <<pvars, source, drawn, call, die, total, roll_total, result,
                   realized, first>>

\* mutant: a fixed value after '-' is negated
realize_fixed_value_inverted(self) ==
    IF self.invert THEN fixed(-(self.value.n)) ELSE fixed(self.value.n)

\* if let Value::Fixed(n) = self.value { return RealizedExpression::fixed(n) }
realize_fixed_value(self) == fixed(self.value.n)

\* Expression::realize of a Fixed term, and the closure's sum += realized
realize_fixed ==
    /\ pc = "term"
    /\ term <= Len(parsed.expressions)
    /\ x.value.kind = "Fixed"
    /\ LET r == realize_fixed_value(x) IN
       /\ sum' = sum + r.realized
       /\ realized_expressions' = Append(realized_expressions, r)
    /\ term' = term + 1
    /\ UNCHANGED <<pvars, pc, source, drawn, call, die, total, roll_total, result,
                   realized, first>>

\* Expression::realize of a Bounded term: up to the dice loop
realize_dice ==
    /\ pc = "term"
    /\ term <= Len(parsed.expressions)
    /\ x.value.kind = "Bounded"
    /\ total' = 0
    /\ die' = 0
    /\ roll_total' = 0
    /\ pc' = "dice"
    /\ UNCHANGED <<pvars, source, drawn, call, term, result, sum,
                   realized_expressions, realized, first>>

\* the body of the loop of roll_with_rerolls_and_explosions, given the values
\* ds that provider.next yields in this pass
roll_with_rerolls_and_explosions(ds) ==
    LET r == apply_advantage_and_disadvantage(x, ds) IN
    /\ source' = Drawn(ds)
    /\ drawn' = drawn + Len(ds)
    /\ result' = r
    /\ IF explodes(x, r)
       THEN /\ roll_total' = roll_total + r
            /\ UNCHANGED <<total, die>>
       ELSE IF rerolls(x, r)
       THEN UNCHANGED <<roll_total, total, die>>
       ELSE /\ total' = total + (roll_total + r)
            /\ roll_total' = 0
            /\ die' = die + 1

\* one pass of the loop, with a provider that may yield any value
roll_pass ==
    /\ pc = "dice"
    /\ die < x.count
    /\ drawn + draws_taken(x) <= MaxDraws
    /\ \E ds \in Draws(draws_taken(x)) : roll_with_rerolls_and_explosions(ds)
    /\ UNCHANGED <<pvars, pc, call, term, sum, realized_expressions, realized, first>>

\* Expression::realize of a Bounded term: after the dice loop
realize_term ==
    /\ pc = "dice"
    /\ die = x.count
    /\ LET r == realize_bounded(x, total) IN
       /\ sum' = sum + r.realized
       /\ realized_expressions' = Append(realized_expressions, r)
    /\ term' = term + 1
    /\ pc' = "term"
    /\ UNCHANGED <<pvars, source, drawn, call, die, total, roll_total, result,
                   realized, first>>

\* CompoundExpression::realize returns
realize_end ==
    /\ pc = "term"
    /\ term > Len(parsed.expressions)
    /\ realized' = [sum |-> sum, realized_expressions |-> realized_expressions]
    /\ pc' = "done"
    /\ UNCHANGED <<pvars, source, drawn, call, term, die, total, roll_total, result,
                   sum, realized_expressions, first>>

\* the caller realizes the same CompoundExpression again, with a provider that
\* yields the same sequence
realize_again ==
    /\ pc = "done"
    /\ call = 1
    /\ first' = realized
    /\ call' = 2
    /\ drawn' = 0
    /\ pc' = "parsed"
    /\ UNCHANGED <<pvars, source, term, die, total, roll_total, result, sum,
                   realized_expressions, realized>>

realize ==
    \/ realize_begin
    \/ realize_fixed
    \/ realize_dice
    \/ roll_pass
    \/ realize_term
    \/ realize_end
    \/ realize_again

----------------------------------------------------------------------------
(* The parser's specification: every notation string within the bounds *)

Strings(A, n) == UNION {[1..k -> A] : k \in 0..n}

CoreAlphabet == {"0", "2", "6", "d", "a", "-", "r", "!"}

Alphabet == CoreAlphabet \cup {"1", "s", "+", "D", "A", "S", "R", "x"}

\* numerals at and beyond the limits of i32 (value, thresholds) and u32 (count)
LongInputs ==
    { <<"2","1","4","7","4","8","3","6","4","7">>,
      <<"2","1","4","7","4","8","3","6","4","8">>,
      <<"1","d","2","1","4","7","4","8","3","6","4","8">>,
      <<"4","2","9","4","9","6","7","2","9","6","d","6">>,
      <<"2","d","6","r","2","1","4","7","4","8","3","6","4","8">> }

\* notations written with a leading '+'
PlusInputs == {<<"+">> \o t : t \in Strings(CoreAlphabet, MaxLen - 1)}

Inputs ==
    Strings(CoreAlphabet, MaxLen) \cup Strings(Alphabet, MaxLenWide)
        \cup PlusInputs \cup LongInputs

\* parse is entered; nothing has been realized
Start ==
    /\ current_idx = 0
    /\ state = BoundedState(0)
    /\ compound_expression = <<>>
    /\ expression = Expression_default
    /\ parsed = Pending
    /\ pc = "parse"
    /\ source = <<>>
    /\ drawn = 0
    /\ call = 1
    /\ term = 0
    /\ die = 0
    /\ total = 0
    /\ roll_total = 0
    /\ result = 0
    /\ sum = 0
    /\ realized_expressions = <<>>
    /\ realized = NoRealized
    /\ first = NoRealized

Init ==
    /\ input \in Inputs
    /\ Start

Next == parse

Spec == Init /\ [][Next]_vars

----------------------------------------------------------------------------
(* The whole program: parse, then realize twice with the same draws *)

Prefixes == {<<>>, <<"a">>, <<"s">>, <<"-">>}
Counts == {<<"1">>, <<"2">>}
Faces == {<<"6">>}
Rerolls == {<<>>, <<"r">>, <<"r", "2">>}
Explodes == {<<>>, <<"!">>, <<"!", "5">>}
Tails == {<<>>, <<"+", "3">>, <<"-", "1", "d", "6">>}

RealizeInputs ==
    {p \o c \o <<"d">> \o f \o r \o e \o t :
        p \in Prefixes, c \in Counts, f \in Faces, r \in Rerolls,
        e \in Explodes, t \in Tails}

InitRealize ==
    /\ input \in RealizeInputs
    /\ Start

NextRealize == parse \/ realize

SpecRealize == InitRealize /\ [][NextRealize]_vars

----------------------------------------------------------------------------
(* The program with a provider that keeps the contract of RngProvider::next:
   every value it yields for next(max) lies in [1, max] *)

\* the n values the next n calls of provider.next(m) yield
ContractDraws(n, m) == {ds \in Draws(n) : \A i \in 1..n : ds[i] \in 1..m}

\* one pass of the loop, with a provider that keeps the contract
roll_contract ==
    /\ pc = "dice"
    /\ die < x.count
    /\ drawn + draws_taken(x) <= MaxDraws
    /\ \E ds \in ContractDraws(draws_taken(x), max(x)) :
          roll_with_rerolls_and_explosions(ds)
    /\ UNCHANGED <<pvars, pc, call, term, sum, realized_expressions, realized, first>>

ContractPrefixes == {<<>>, <<"a">>, <<"s">>, <<"-">>}
ContractCounts == {<<"0">>, <<"1">>, <<"2">>}
ContractFaces == {<<"1">>, <<"2">>, <<"3">>}
ContractRerolls == {<<>>, <<"r">>, <<"r", "2">>, <<"r", "3">>}
ContractExplodes == {<<>>, <<"!">>, <<"!", "1">>, <<"!", "2">>}
ContractTails == {<<>>, <<"-", "3">>}
FixedPrefixes == {<<"+">>, <<"-">>, <<"a">>, <<"s">>}

\* dice terms with every combination of modifiers, alone or before a fixed
\* modifier, and fixed terms carrying flags and thresholds
ContractInputs ==
    {p \o c \o <<"d">> \o f \o r \o e \o t :
        p \in ContractPrefixes, c \in ContractCounts, f \in ContractFaces,
        r \in ContractRerolls, e \in ContractExplodes, t \in ContractTails}
    \cup
    {p \o <<"3">> \o r \o e :
        p \in FixedPrefixes, r \in ContractRerolls, e \in ContractExplodes}

InitContract ==
    /\ input \in ContractInputs
    /\ Start

NextContract ==
    \/ parse
    \/ realize_begin
    \/ realize_fixed
    \/ realize_dice
    \/ roll_contract
    \/ realize_term
    \/ realize_end

SpecContract == InitContract /\ [][NextContract]_vars

----------------------------------------------------------------------------
(* The program run to the end, however long the dice loop takes: a provider
   that keeps the contract and whose randomness is fair *)

\* total += result on an i32, which wraps around in a release build. The exit
\* tests of the loop read the candidate only, never the accumulator, so the
\* model keeps the accumulator at a narrower width: exact up to MaxTotal,
\* wrapping around beyond it. A loop that accumulates for ever is then a
\* cycle through finitely many states.
accumulated(t) == t % (MaxTotal + 1)

\* one pass of the loop of roll_with_rerolls_and_explosions in which
\* provider.next yields the values ds; no bound on the number of passes
roll_fair(ds) ==
    /\ pc = "dice"
    /\ die < x.count
    /\ ds \in [1..draws_taken(x) -> 1..max(x)]
    /\ LET r == apply_advantage_and_disadvantage(x, ds) IN
       /\ result' = r
       /\ IF explodes(x, r)
          THEN /\ roll_total' = accumulated(roll_total + r)
               /\ UNCHANGED <<total, die>>
          ELSE IF rerolls(x, r)
          THEN UNCHANGED <<roll_total, total, die>>
          ELSE /\ total' = total + (roll_total + r)
               /\ roll_total' = 0
               /\ die' = die + 1
    /\ UNCHANGED <<pvars, pc, source, drawn, call, term, sum, realized_expressions,
                   realized, first>>

FairPrefixes == {<<>>, <<"a">>, <<"s">>, <<"-">>}
FairCounts == {<<"1">>, <<"2">>}
FairFaces == {<<"1">>, <<"2">>}
FairRerolls == {<<>>, <<"r">>, <<"r", "2">>}
FairExplodes == {<<>>, <<"!">>, <<"!", "1">>, <<"!", "2">>}
FairTails == {<<>>, <<"+", "3">>}

FairInputs ==
    {p \o c \o <<"d">> \o f \o r \o e \o t :
        p \in FairPrefixes, c \in FairCounts, f \in FairFaces,
        r \in FairRerolls, e \in FairExplodes, t \in FairTails}

\* the values two calls of provider.next can yield, for the die sizes above
FairDraws == UNION {[1..2 -> 1..DigitVal(f[1])] : f \in FairFaces}

\* the pass that takes its one value, or its two, from the head of p
roll_fair_on(p) == roll_fair(SubSeq(p, 1, draws_taken(x)))

InitFair ==
    /\ input \in FairInputs
    /\ Start

NextFair ==
    \/ parse
    \/ realize_begin
    \/ realize_fixed
    \/ realize_dice
    \/ \E p \in FairDraws : roll_fair_on(p)
    \/ realize_term
    \/ realize_end

\* The program is sequential and runs on while it can (weak fairness of the
\* next step); the provider is fair randomness: every value, and for the two
\* draws of an advantage or disadvantage pass every pair of values, that can
\* be drawn again and again is drawn again and again (strong fairness).
SpecFair ==
    /\ InitFair
    /\ [][NextFair]_vars
    /\ WF_vars(NextFair)
    /\ \A p \in FairDraws : SF_vars(roll_fair_on(p))

----------------------------------------------------------------------------
(* Reference notions the properties are stated with *)

\* a non-empty run of decimal digits
IsDigits(s) == s /= <<>> /\ \A i \in 1..Len(s) : s[i] \in Digits

RECURSIVE StripZeros(_)
StripZeros(s) ==
    IF Len(s) > 1 /\ s[1] = "0" THEN StripZeros(Tail(s)) ELSE s

I32MaxDigits == <<"2", "1", "4", "7", "4", "8", "3", "6", "4", "7">>
U32MaxDigits == <<"4", "2", "9", "4", "9", "6", "7", "2", "9", "5">>

\* the numeral s denotes a value of at most the one lim denotes
AtMost(s, lim) ==
    LET z == StripZeros(s) IN
    \/ Len(z) < Len(lim)
    \/ /\ Len(z) = Len(lim)
       /\ \/ z = lim
          \/ \E k \in 1..Len(z) :
                /\ \A j \in 1..(k - 1) : z[j] = lim[j]
                /\ DigitVal(z[k]) < DigitVal(lim[k])

\* a decimal numeral of an i32 (and of a u32 within the integers TLC evaluates)
IsNumeral(s) == IsDigits(s) /\ AtMost(s, I32MaxDigits)

\* a decimal numeral of a u32
IsU32Numeral(s) == IsDigits(s) /\ AtMost(s, U32MaxDigits)

\* the value a numeral denotes
RECURSIVE Numeral(_)
Numeral(s) ==
    IF s = <<>> THEN 0
    ELSE 10 * Numeral(SubSeq(s, 1, Len(s) - 1)) + DigitVal(s[Len(s)])

\* a term with the given fields
Term(count, value, invert, advantage, disadvantage, reroll, explode) ==
    [count |-> count, value |-> value, invert |-> invert,
     advantage |-> advantage, disadvantage |-> disadvantage,
     reroll |-> reroll, explode |-> explode]

\* a term with no modifier
PlainTerm(count, value) == Term(count, value, FALSE, FALSE, FALSE, None, None)

\* parse has returned
Returned == pc /= "parse"

----------------------------------------------------------------------------
(* C1 *)

\* C1: for every input "NdM" or "NDM" with numerals N and M and nothing else,
\* parse returns exactly one term, count = N, value = Bounded(M), no modifier;
\* for every input that is one numeral M, parse returns exactly one term,
\* count = 1, value = Bounded(M).
C1_PlainDice ==
    Returned =>
      /\ \A p \in 1..Len(input) :
            LET n == SubSeq(input, 1, p - 1)
                m == SubSeq(input, p + 1, Len(input))
            IN  (is_separator(input[p]) /\ IsNumeral(n) /\ IsNumeral(m))
                  => parsed = Ok(<<PlainTerm(Numeral(n), Bounded(Numeral(m)))>>)
      /\ IsNumeral(input)
            => parsed = Ok(<<PlainTerm(1, Bounded(Numeral(input)))>>)

\* parse("2d6") has returned the term 2 x Bounded(6)
C1_Witness ==
    /\ input = <<"2", "d", "6">>
    /\ pc = "parsed"
    /\ parsed.expressions = <<PlainTerm(2, Bounded(6))>>

----------------------------------------------------------------------------
(* C2 *)

\* the term "aN" and "a1dN" are claimed to yield
AdvantageTerm(c, n) ==
    Term(1, Bounded(n), FALSE, to_ascii_lowercase(c) = "a",
         to_ascii_lowercase(c) = "s", None, None)

\* C2: for every die size N, parse("aN") and parse("a1dN") each return exactly
\* one term and the two are equal: count = 1, value = Bounded(N),
\* advantage = true (for 's': disadvantage = true).
C2_AdvantageShorthand ==
    (Returned /\ input /= <<>> /\ to_ascii_lowercase(input[1]) \in {"a", "s"}) =>
      LET rest == Tail(input)
          long == SubSeq(input, 4, Len(input))
      IN  /\ IsNumeral(rest)
             => parsed = Ok(<<AdvantageTerm(input[1], Numeral(rest))>>)
          /\ (Len(input) > 3 /\ SubSeq(input, 2, 3) = <<"1", "d">> /\ IsNumeral(long))
             => parsed = Ok(<<AdvantageTerm(input[1], Numeral(long))>>)

----------------------------------------------------------------------------
(* Reference notions for realization *)

\* values the provider yields per candidate of term e
PerCandidate(e) == IF e.advantage \/ e.disadvantage THEN 2 ELSE 1

\* the candidates the source holds for term e
NumCandidates(e, src) == Len(src) \div PerCandidate(e)

\* the i-th candidate of term e when its dice start at the head of src: the
\* value itself, or of two values the larger (advantage) or smaller
\* (disadvantage)
Candidate(e, src, i) ==
    LET a == src[2 * i - 1]
        b == src[2 * i]
    IN  CASE e.advantage -> IF a > b THEN a ELSE b
          [] e.disadvantage -> IF a < b THEN a ELSE b
          [] OTHER -> src[i]

\* the sign a term enters the sum with
Signed(e, v) == IF e.invert THEN -v ELSE v

\* n dice under reroll threshold t, from candidate i on: each die's resolved
\* value is the first candidate > t, the candidates <= t before it are dropped
RECURSIVE RerollDice(_, _, _, _, _)
RerollDice(e, src, i, n, t) ==
    IF n = 0 THEN [ok |-> TRUE, sum |-> 0, next |-> i]
    ELSE IF i > NumCandidates(e, src) THEN [ok |-> FALSE, sum |-> 0, next |-> i]
    ELSE IF Candidate(e, src, i) <= t THEN RerollDice(e, src, i + 1, n, t)
    ELSE LET rest == RerollDice(e, src, i + 1, n - 1, t) IN
         [ok |-> rest.ok, sum |-> Candidate(e, src, i) + rest.sum, next |-> rest.next]

\* n dice under explode threshold ex, from candidate i on, acc the candidates
\* the die at hand has accumulated: each die's resolved value is the
\* candidates >= ex it met plus the first candidate < ex
RECURSIVE ExplodeDice(_, _, _, _, _, _)
ExplodeDice(e, src, i, n, ex, acc) ==
    IF n = 0 THEN [ok |-> TRUE, sum |-> 0, next |-> i]
    ELSE IF i > NumCandidates(e, src) THEN [ok |-> FALSE, sum |-> 0, next |-> i]
    ELSE IF Candidate(e, src, i) >= ex
    THEN ExplodeDice(e, src, i + 1, n, ex, acc + Candidate(e, src, i))
    ELSE LET rest == ExplodeDice(e, src, i + 1, n - 1, ex, 0) IN
         [ok |-> rest.ok, sum |-> acc + Candidate(e, src, i) + rest.sum,
          next |-> rest.next]

\* a realize call has returned
Done == pc = "done"

\* the first term of the parsed expression, the one whose dice take the head
\* of the source
head == parsed.expressions[1]

----------------------------------------------------------------------------
(* C3 *)

\* C3: realizing a dice term with reroll threshold t and no explode threshold,
\* every candidate <= t is dropped unadded, each die resolves to the first
\* candidate > t, the dice take the draws in order, and the sum is the sum of
\* the resolved values (entering negated for a term written after '-');
\* "2d6r" with draws 6,1,5 and "2d6r2" with draws 6,2,5 both sum to 11.
C3_Reroll ==
    Done =>
      /\ (head.value.kind = "Bounded" /\ head.reroll.some /\ ~head.explode.some) =>
            LET r == RerollDice(head, source, 1, head.count, head.reroll.v) IN
            /\ r.ok
            /\ realized.realized_expressions[1].realized = Signed(head, r.sum)
            /\ Len(parsed.expressions) = 1 =>
                  /\ realized.sum = Signed(head, r.sum)
                  /\ drawn = (r.next - 1) * PerCandidate(head)
      /\ (input = <<"2", "d", "6", "r">> /\ source = <<6, 1, 5>>) => realized.sum = 11
      /\ (input = <<"2", "d", "6", "r", "2">> /\ source = <<6, 2, 5>>) => realized.sum = 11

\* "2d6r" realized with the draws 6, 1, 5: the 1 is rerolled
C3_Witness ==
    /\ Done
    /\ input = <<"2", "d", "6", "r">>
    /\ source = <<6, 1, 5>>
    /\ realized.sum = 11

----------------------------------------------------------------------------
(* C4 *)

\* C4: realizing a dice term with explode threshold e and no reroll threshold,
\* every candidate >= e is added to the die's accumulator and another is
\* drawn, each die resolves to the accumulator plus the first candidate < e,
\* and the sum is the sum of the resolved values (entering negated for a term
\* written after '-'); "2d6!" with draws 6,2,5 sums to 13 and "2d6!5" with
\* draws 6,2,5,4 sums to 17.
C4_Explode ==
    Done =>
      /\ (head.value.kind = "Bounded" /\ head.explode.some /\ ~head.reroll.some) =>
            LET r == ExplodeDice(head, source, 1, head.count, head.explode.v, 0) IN
            /\ r.ok
            /\ realized.realized_expressions[1].realized = Signed(head, r.sum)
            /\ Len(parsed.expressions) = 1 =>
                  /\ realized.sum = Signed(head, r.sum)
                  /\ drawn = (r.next - 1) * PerCandidate(head)
      /\ (input = <<"2", "d", "6", "!">> /\ source = <<6, 2, 5>>) => realized.sum = 13
      /\ (input = <<"2", "d", "6", "!", "5">> /\ source = <<6, 2, 5, 4>>)
            => realized.sum = 17

\* "2d6!5" realized with the draws 6, 2, 5, 4: both dice explode once
C4_Witness ==
    /\ Done
    /\ input = <<"2", "d", "6", "!", "5">>
    /\ source = <<6, 2, 5, 4>>
    /\ realized.sum = 17

----------------------------------------------------------------------------
(* C5 *)

\* C5: parsing "NdMr" yields one term with count = N, value = Bounded(M) and
\* reroll threshold 1; parsing "NdMrK" with a numeral K yields reroll
\* threshold K; the explode threshold stays unset in both.
C5_RerollThreshold ==
    Returned =>
      \A p \in 1..Len(input) : \A q \in (p + 1)..Len(input) :
         LET n == SubSeq(input, 1, p - 1)
             m == SubSeq(input, p + 1, q - 1)
             k == SubSeq(input, q + 1, Len(input))
         IN  (/\ is_separator(input[p])
              /\ to_ascii_lowercase(input[q]) = "r"
              /\ IsNumeral(n) /\ IsNumeral(m)
              /\ (k = <<>> \/ IsNumeral(k)))
             => parsed = Ok(<<Term(Numeral(n), Bounded(Numeral(m)), FALSE, FALSE, FALSE,
                                   Some(IF k = <<>> THEN 1 ELSE Numeral(k)), None)>>)

\* parse("2d6r") has returned a term with the default reroll threshold
C5_Witness ==
    /\ input = <<"2", "d", "6", "r">>
    /\ pc = "parsed"
    /\ parsed.expressions[1].reroll = Some(1)
    /\ parsed.expressions[1].explode = None

----------------------------------------------------------------------------
(* C6 *)

\* C6: parsing "NdM!" yields one term with count = N, value = Bounded(M) and
\* explode threshold M; parsing "NdM!K" with a numeral K yields explode
\* threshold K; the reroll threshold stays unset in both.
C6_ExplodeThreshold ==
    Returned =>
      \A p \in 1..Len(input) : \A q \in (p + 1)..Len(input) :
         LET n == SubSeq(input, 1, p - 1)
             m == SubSeq(input, p + 1, q - 1)
             k == SubSeq(input, q + 1, Len(input))
         IN  (/\ is_separator(input[p])
              /\ input[q] = "!"
              /\ IsNumeral(n) /\ IsNumeral(m)
              /\ (k = <<>> \/ IsNumeral(k)))
             => parsed = Ok(<<Term(Numeral(n), Bounded(Numeral(m)), FALSE, FALSE, FALSE,
                                   None,
                                   Some(IF k = <<>> THEN Numeral(m) ELSE Numeral(k)))>>)

\* parse("2d6!") has returned a term whose explode threshold is the die size
C6_Witness ==
    /\ input = <<"2", "d", "6", "!">>
    /\ pc = "parsed"
    /\ parsed.expressions[1].explode = Some(6)
    /\ parsed.expressions[1].reroll = None

----------------------------------------------------------------------------
(* C7 *)

\* the span the cursor covers
span == Slice(input, state.idx, current_idx)

\* the separators of a span
Separators(s) == {i \in 1..Len(s) : is_separator(s[i])}

\* a count/value span with at most one separator, one of whose halves is not
\* a decimal integer of its field
BadHalf(s) ==
    IF Separators(s) = {} THEN ~IsNumeral(s)
    ELSE LET p == CHOOSE i \in Separators(s) : TRUE IN
         \/ ~IsU32Numeral(SubSeq(s, 1, p - 1))
         \/ ~IsNumeral(SubSeq(s, p + 1, Len(s)))

\* the error the span s must end the parse with under cursor kind k, or
\* "None" when the span is well formed
SpanError(k, s) ==
    IF s = <<>> THEN "None"
    ELSE IF k \in {"Bounded", "Base"}
    THEN IF Cardinality(Separators(s)) >= 2 THEN "BadExpression"
         ELSE IF BadHalf(s) THEN "ParseInteger" ELSE "None"
    ELSE IF ~IsNumeral(s) THEN "ParseInteger" ELSE "None"

\* the loop is at a byte that finalizes the span, or at the end of the input
Finalizing ==
    /\ pc = "parse"
    /\ \/ current_idx = Len(input)
       \/ u \in {"a", "s", "+", "-", "r", "!"}

\* C7: parse fails fast with an error and no term sequence: a Bounded/Base
\* span with more than one 'd'/'D' gives a malformed-expression error
\* carrying the span, a span whose count half, value half or threshold is not
\* a decimal integer gives an invalid-integer error carrying the span; the
\* terms finalized before the failing span are not returned.
C7_FailFast ==
    /\ [](pc = "failed" =>
            /\ parsed.tag = "Err"
            /\ parsed.expressions = <<>>
            /\ parsed.error.kind = SpanError(state.kind, span)
            /\ parsed.error.kind \in {"BadExpression", "ParseInteger"}
            /\ parsed.error.expr = span)
    /\ [][(Finalizing /\ SpanError(state.kind, span) /= "None") => pc' = "failed"]_vars
    /\ [](pc = "parsed" => parsed.tag = "Ok")

\* parse has failed on a span with two separators after a term was finalized
C7_Witness ==
    /\ pc = "failed"
    /\ Len(compound_expression) >= 1
    /\ parsed.error = bad_expression(span)
    /\ Cardinality(Separators(span)) = 2
    /\ parsed.expressions = <<>>

----------------------------------------------------------------------------
(* C8 *)

\* C8: realizing the same CompoundExpression twice, each time with a provider
\* that yields the same draws, gives the same sum and the same per-term
\* realized/min/max; realize leaves the CompoundExpression as parse returned it.
C8_Deterministic ==
    /\ pc \in {"parsed", "term", "dice", "done"} => parsed = Ok(compound_expression)
    /\ (Done /\ call = 2) => realized = first

\* the second realize call has returned, three draws taken, two terms realized
C8_Witness ==
    /\ Done
    /\ call = 2
    /\ drawn >= 3
    /\ Len(realized.realized_expressions) = 2
    /\ realized = first

----------------------------------------------------------------------------
(* C9 *)

\* C9 as claimed: no term of the sequence a successful parse returns has
\* count == 0, for any input.
C9_NoEmptyTerm ==
    pc = "parsed" =>
      \A i \in 1..Len(parsed.expressions) : parsed.expressions[i].count /= 0

\* C9 as amended: no term but the last of the sequence a successful parse
\* returns has count == 0 (the boundary pushes drop empty terms; the push at
\* the end of the input is unconditional).
C9_OnlyLastMayBeEmpty ==
    /\ pc = "parse" =>
          \A i \in 1..Len(compound_expression) : compound_expression[i].count /= 0
    /\ pc = "parsed" =>
          \A i \in 1..(Len(parsed.expressions) - 1) : parsed.expressions[i].count /= 0

\* parse("0d6-2d6") has returned one term: the empty first term was dropped
\* at the '-' boundary
C9_Witness ==
    /\ pc = "parsed"
    /\ input = <<"0", "d", "6", "-", "2">>
    /\ Len(parsed.expressions) = 1
    /\ parsed.expressions[1].count = 1

----------------------------------------------------------------------------
(* C10 *)

\* C10: one pass of the single-die loop takes exactly one value from the
\* provider when advantage and disadvantage are unset; exactly two when
\* advantage is set, the candidate being the larger; exactly two when
\* disadvantage is set, the candidate being the smaller.
C10_DrawsPerPass ==
    [][(pc = "dice" /\ die < x.count) =>
         LET a == source'[drawn + 1]
             b == source'[drawn + 2]
         IN  CASE x.advantage ->
                    /\ drawn' = drawn + 2
                    /\ result' = IF a > b THEN a ELSE b
               [] x.disadvantage ->
                    /\ drawn' = drawn + 2
                    /\ result' = IF a < b THEN a ELSE b
               [] OTHER ->
                    /\ drawn' = drawn + 1
                    /\ result' = a]_vars

\* a pass of an advantage term has taken 2 and 5 and kept the 5
C10_Witness ==
    /\ pc = "dice"
    /\ x.advantage
    /\ drawn = 2
    /\ source = <<2, 5>>
    /\ result = 5

----------------------------------------------------------------------------
(* C11 *)

\* the term being realized is a Fixed one
AtFixed ==
    /\ pc = "term"
    /\ term <= Len(parsed.expressions)
    /\ x.value.kind = "Fixed"

\* C11: realizing a term whose value is Fixed(n) yields realized = n, min = n
\* and max = n whatever its invert, advantage, disadvantage, count, reroll and
\* explode fields are, takes no value from the provider, and adds +n to the
\* sum (also for a fixed modifier written after '-').
C11_FixedIgnoresModifiers ==
    /\ [](\A i \in 1..Len(realized_expressions) :
            parsed.expressions[i].value.kind = "Fixed" =>
               LET n == parsed.expressions[i].value.n IN
               realized_expressions[i] = [min |-> n, max |-> n, realized |-> n])
    /\ [][AtFixed => /\ drawn' = drawn
                     /\ source' = source
                     /\ sum' = sum + x.value.n]_vars

\* "1d2-3" realized: the fixed 3 after '-' has entered the sum as +3 and has
\* taken no value from the provider
C11_Witness ==
    /\ Done
    /\ input = <<"1", "d", "2", "-", "3">>
    /\ parsed.expressions[2].invert
    /\ parsed.expressions[2].value = Fixed(3)
    /\ realized.realized_expressions[2] = [min |-> 3, max |-> 3, realized |-> 3]
    /\ drawn = 1
    /\ realized.sum = source[1] + 3

----------------------------------------------------------------------------
(* C12 *)

\* the input is "+" followed by a notation X that starts with a digit and that
\* parse accepts
PlusBeforeParsable ==
    /\ Returned
    /\ Len(input) >= 2
    /\ input[1] = "+"
    /\ input[2] \in Digits
    /\ parse_str(Tail(input)).tag = "Ok"

\* the leading span of s, up to its first 'a', 's', '+', '-', 'r' or '!',
\* holds a 'd' or 'D'
LeadingSpanHasSeparator(s) ==
    \E i \in 1..Len(s) :
       /\ is_separator(s[i])
       /\ \A j \in 1..(i - 1) :
             to_ascii_lowercase(s[j]) \notin {"a", "s", "+", "-", "r", "!"}

\* C12 as claimed: for every notation X that starts with a digit and parses
\* successfully, parse("+" + X) returns the same term sequence as parse(X).
C12_ImplicitPlus ==
    PlusBeforeParsable => parsed = parse_str(Tail(input))

\* C12 as amended: parse returns what the function of its argument gives; for
\* X as above, parse("+" + X) equals parse(X) when the leading span of X holds
\* a 'd'; otherwise the two sequences have the same length and the same fields
\* except for the kind of the first term's value, and equal later terms.
C12_ImplicitPlusOnDice ==
    /\ Returned => parsed = parse_str(input)
    /\ PlusBeforeParsable =>
          LET px == parse_str(Tail(input)).expressions
              pp == parsed.expressions
          IN  /\ parsed.tag = "Ok"
              /\ Len(pp) = Len(px)
              /\ LeadingSpanHasSeparator(Tail(input)) => pp = px
              /\ \A i \in 2..Len(pp) : pp[i] = px[i]
              /\ [pp[1] EXCEPT !.value.kind = "Bounded"]
                    = [px[1] EXCEPT !.value.kind = "Bounded"]

\* parse("+2d6") has returned the term of parse("2d6")
C12_Witness ==
    /\ pc = "parsed"
    /\ input = <<"+", "2", "d", "6">>
    /\ parsed = Ok(<<PlainTerm(2, Bounded(6))>>)
    /\ parsed = parse_str(<<"2", "d", "6">>)

----------------------------------------------------------------------------
(* C13 *)

\* C13: for every die size M, parse("dM") succeeds and returns exactly one
\* term with count = 1 and value = Bounded(M), the term parse("1dM") returns.
C13_CountDefaultsToOne ==
    (Returned /\ Len(input) >= 2 /\ input[1] = "d" /\ IsNumeral(Tail(input))) =>
       /\ parsed = Ok(<<PlainTerm(1, Bounded(Numeral(Tail(input))))>>)
       /\ parsed = parse_str(<<"1">> \o input)

----------------------------------------------------------------------------
(* C14 *)

\* the single-die loop is running for a dice term without a reroll threshold
InLoopWithoutReroll ==
    /\ pc = "dice"
    /\ die < x.count
    /\ max(x) >= 1
    /\ ~x.reroll.some

\* every die of the term has been resolved
LoopReturned == pc = "dice" /\ die = x.count

\* C14 as claimed: for every dice term the parser can produce that has no
\* reroll threshold, whatever its explode threshold, the single-die loop
\* terminates when the provider yields values in [1, faceCount] and every
\* face value keeps being drawn.
C14_TerminatesWithoutReroll == InLoopWithoutReroll ~> LoopReturned

\* C14 as amended: the loop terminates for such a term when its explode
\* threshold is unset or above 1, the lowest value the provider yields.
C14_TerminatesAboveOne ==
    (InLoopWithoutReroll /\ (x.explode.some => x.explode.v > 1)) ~> LoopReturned

\* "1d2!" realized: the die exploded on 2 twice, then resolved on a 1
C14_Witness ==
    /\ Done
    /\ input = <<"1", "d", "2", "!">>
    /\ head.explode = Some(2)
    /\ result = 1
    /\ realized.sum = 5

----------------------------------------------------------------------------
(* C15 *)

\* the single-die loop is running for a dice term whose reroll threshold is
\* at least its face count
InLoopRerollingAll ==
    /\ pc = "dice"
    /\ die < x.count
    /\ max(x) >= 1
    /\ x.reroll.some
    /\ x.reroll.v >= max(x)

\* C15: if the reroll threshold is at least the face count and the provider
\* yields values in [1, faceCount], the single-die loop never returns: every
\* pass leaves the loop running on the same die, its candidate either
\* accumulated by explode or discarded by reroll, after any number of passes.
C15_RerollNeverReturns ==
    [][InLoopRerollingAll =>
         /\ InLoopRerollingAll'
         /\ die' = die
         /\ total' = total
         /\ \/ explodes(x, result')
            \/ rerolls(x, result') /\ roll_total' = roll_total]_vars

\* "1d2r2!": the loop has accumulated two exploding 2s and discarded a 1, and
\* is still on its first die
C15_Witness ==
    /\ input = <<"1", "d", "2", "r", "2", "!">>
    /\ InLoopRerollingAll
    /\ die = 0
    /\ roll_total = 4
    /\ result = 1

----------------------------------------------------------------------------
(* C16 *)

\* C16: realizing a term whose value is Bounded(faceCount) resolves exactly
\* count dice, one after the other, and sums their resolved values into
\* total; an inverted term yields realized = -total, max = -count and
\* min = -(count * faceCount), any other realized = total,
\* max = count * faceCount and min = count.
C16_BoundedRealization ==
    /\ [](pc = "dice" => /\ die <= x.count
                          /\ die = 0 => total = 0)
    /\ [][pc = "dice" =>
            /\ die' /= die => /\ die' = die + 1
                               /\ total' = total + (roll_total + result')
            /\ die' = die => total' = total
            /\ pc' /= "dice" =>
                  /\ die = x.count
                  /\ realized_expressions' =
                        Append(realized_expressions,
                               IF x.invert
                               THEN [realized |-> -total,
                                     max |-> -(x.count),
                                     min |-> -(x.count * x.value.n)]
                               ELSE [realized |-> total,
                                     max |-> x.count * x.value.n,
                                     min |-> x.count])]_vars

\* "-2d3" realized with the draws 2, 3
C16_Witness ==
    /\ Done
    /\ input = <<"-", "2", "d", "3">>
    /\ source = <<2, 3>>
    /\ realized.realized_expressions = <<[realized |-> -5, max |-> -2, min |-> -6]>>
    /\ realized.sum = -5

----------------------------------------------------------------------------
(* C17 *)

\* the characters at which a term is finalized and may be emitted
Emitting == {"a", "s", "+", "-"}

\* the emitting characters of the input
EmittingAt == {i \in 1..Len(input) : to_ascii_lowercase(input[i]) \in Emitting}

\* the output sequence has grown by exactly one term at its end
GrownByOne ==
    /\ Len(compound_expression') = Len(compound_expression) + 1
    /\ SubSeq(compound_expression', 1, Len(compound_expression)) = compound_expression

\* C17: while tokenizing, 'r', '!', 'd' and every non-control character leave
\* the output sequence unchanged; 'd' also leaves the in-progress term and
\* the cursor's offset unchanged and makes the cursor's kind Bounded; at each
\* 'a'/'s'/'+'/'-' the output grows by at most one term, at its end, and only
\* by a non-empty term; at the end of the input it grows by exactly one term;
\* a successful parse returns between 1 and 1 + (number of a/s/+/-) terms.
C17_Frame ==
    /\ [][(InLoop /\ u \notin Emitting) =>
             compound_expression' = compound_expression]_vars
    /\ [][(InLoop /\ u = "d") =>
             /\ expression' = expression
             /\ state'.idx = state.idx
             /\ state'.kind = "Bounded"]_vars
    /\ [][(InLoop /\ u \in Emitting) =>
             \/ compound_expression' = compound_expression
             \/ /\ GrownByOne
                /\ compound_expression'[Len(compound_expression')].count /= 0]_vars
    /\ [][(pc = "parse" /\ pc' = "parsed") =>
             /\ current_idx = Len(input)
             /\ GrownByOne
             /\ parsed' = Ok(compound_expression')]_vars
    /\ [](pc = "parsed" =>
             /\ Len(parsed.expressions) >= 1
             /\ Len(parsed.expressions) <= 1 + Cardinality(EmittingAt))

\* parse("2-a6") has returned two terms for two emitting characters: the
\* empty term between '-' and 'a' was not emitted
C17_Witness ==
    /\ pc = "parsed"
    /\ input = <<"2", "-", "a", "6">>
    /\ Len(parsed.expressions) = 2
    /\ parsed.expressions[1] = PlainTerm(1, Bounded(2))
    /\ parsed.expressions[2].advantage

----------------------------------------------------------------------------
(* C18 *)

\* n dice of term e from candidate i on, acc the candidates the die at hand
\* has accumulated: a candidate at or above the explode threshold is
\* accumulated, any other at or below the reroll threshold is dropped, and
\* the first candidate that is neither resolves the die to acc plus itself
RECURSIVE ResolveDice(_, _, _, _, _)
ResolveDice(e, src, i, n, acc) ==
    IF n = 0 THEN [ok |-> TRUE, sum |-> 0, next |-> i]
    ELSE IF i > NumCandidates(e, src) THEN [ok |-> FALSE, sum |-> 0, next |-> i]
    ELSE LET c == Candidate(e, src, i) IN
         IF e.explode.some /\ c >= e.explode.v
         THEN ResolveDice(e, src, i + 1, n, acc + c)
         ELSE IF e.reroll.some /\ c <= e.reroll.v
         THEN ResolveDice(e, src, i + 1, n, acc)
         ELSE LET rest == ResolveDice(e, src, i + 1, n - 1, 0) IN
              [ok |-> rest.ok, sum |-> acc + c + rest.sum, next |-> rest.next]

\* C18: whenever the single-die loop returns, the last candidate c is
\* strictly below the explode threshold (if set) and strictly above the
\* reroll threshold (if set), and the returned value is c plus the sum of the
\* earlier candidates that were at or above the explode threshold; a
\* candidate that is both at or above the explode threshold and at or below
\* the reroll threshold is accumulated, never discarded.
C18_LoopReturn ==
    /\ [][(pc = "dice" /\ die' = die + 1) =>
             /\ x.explode.some => result' < x.explode.v
             /\ x.reroll.some => result' > x.reroll.v
             /\ total' = total + (roll_total + result')]_vars
    /\ [][(/\ pc = "dice"
           /\ drawn' /= drawn
           /\ x.explode.some /\ result' >= x.explode.v
           /\ x.reroll.some /\ result' <= x.reroll.v) =>
             /\ roll_total' = roll_total + result'
             /\ die' = die]_vars
    /\ []((Done /\ head.value.kind = "Bounded") =>
             LET r == ResolveDice(head, source, 1, head.count, 0) IN
             /\ r.ok
             /\ drawn = (r.next - 1) * PerCandidate(head)
             /\ realized.realized_expressions[1].realized = Signed(head, r.sum))

\* the one die of "1d3r!" has returned 5 on the draws 3, 1, 2: the 3
\* exploded, the 1 was rerolled
C18_Witness ==
    /\ pc = "dice"
    /\ input = <<"1", "d", "3", "r", "!">>
    /\ x.explode = Some(3)
    /\ x.reroll = Some(1)
    /\ source = <<3, 1, 2>>
    /\ die = 1
    /\ result = 2
    /\ total = 5

----------------------------------------------------------------------------
(* C19 *)

\* at most one of the three flags of the term e is set
AtMostOneFlag(e) ==
    /\ ~(e.invert /\ e.advantage)
    /\ ~(e.invert /\ e.disadvantage)
    /\ ~(e.advantage /\ e.disadvantage)

\* C19: every term the parser emits, and the term in progress, has at most
\* one of invert, advantage and disadvantage set (so advantage and
\* disadvantage are never both true); a sign directly before an advantage or
\* disadvantage character is not carried onto the term that follows it.
C19_FlagsExclusive ==
    /\ AtMostOneFlag(expression)
    /\ \A i \in 1..Len(compound_expression) : AtMostOneFlag(compound_expression[i])
    /\ \A i \in 1..Len(parsed.expressions) : AtMostOneFlag(parsed.expressions[i])
    /\ (/\ InLoop
        /\ current_idx >= 1
        /\ input[current_idx] \in {"+", "-"}
        /\ u \in {"a", "s"}) => expression.invert = (input[current_idx] = "-")
    /\ (/\ pc = "parse"
        /\ current_idx >= 2
        /\ input[current_idx - 1] \in {"+", "-"}
        /\ to_ascii_lowercase(input[current_idx]) \in {"a", "s"}) => ~expression.invert

\* parse("-a20") has returned one term, with advantage and without the sign
C19_Witness ==
    /\ pc = "parsed"
    /\ input = <<"-", "a", "2", "0">>
    /\ Len(parsed.expressions) = 1
    /\ parsed.expressions[1].advantage
    /\ ~parsed.expressions[1].invert
    /\ ~parsed.expressions[1].disadvantage

----------------------------------------------------------------------------
(* C20 *)

\* C20: for every Bounded term with faceCount >= 1 and no explode threshold,
\* realized with a provider that yields values in [1, faceCount] (with or
\* without reroll, advantage, disadvantage and invert), the result satisfies
\* min <= realized <= max.
C20_WithinBounds ==
    \A i \in 1..Len(realized_expressions) :
       LET e == parsed.expressions[i]
           r == realized_expressions[i]
       IN  (e.value.kind = "Bounded" /\ e.value.n >= 1 /\ ~e.explode.some) =>
              /\ r.min <= r.realized
              /\ r.realized <= r.max

\* "-2d3r" realized with the draws 1, 3, 2: -5 lies within [-6, -2]
C20_Witness ==
    /\ Done
    /\ input = <<"-", "2", "d", "3", "r">>
    /\ source = <<1, 3, 2>>
    /\ realized.realized_expressions = <<[realized |-> -5, max |-> -2, min |-> -6]>>

====
